---- MODULE Spec2Model ----
(***************************************************************************)
(* hashmatch.py: scan dir/.hashcheck for every directory argument, build   *)
(* a dict hash -> list of (length, path), and print one tab-separated line *)
(* when a new file has the hash and the length of a file seen before.      *)
(*                                                                         *)
(* Text is modelled as a sequence of one-character strings, so that find,  *)
(* slicing, lstrip, rstrip and os.path.join act on characters as they do   *)
(* in Python.                                                              *)
(***************************************************************************)
EXTENDS Integers, Sequences, FiniteSets, TLC

\* ----- bounds of the model ------------------------------------------------
\* number of directory arguments on the command line
MaxDirs == 2
\* number of lines in one .hashcheck file (main specification)
MaxLines == 2
\* number of characters of the path field (parsing specification)
MaxPathLen == 3

\* ----- Python string primitives -------------------------------------------

Max(a, b) == IF a > b THEN a ELSE b
Min(a, b) == IF a < b THEN a ELSE b

\* str.find(c, start): lowest 0-based index >= start holding c, or -1
RECURSIVE Find(_, _, _)
Find(s, c, start) ==
    IF start >= Len(s) THEN -1
    ELSE IF s[start + 1] = c THEN start
    ELSE Find(s, c, start + 1)

\* an index of a slice with a negative index taken as 0
SliceIndexFromStart(s, i) == IF i < 0 THEN 0 ELSE Min(i, Len(s))

\* an index of a slice: negative counts from the end, then clamped to 0..len
SliceIndex(s, i) == IF i < 0 THEN Max(Len(s) + i, 0) ELSE Min(i, Len(s))

\* s[i:j]
Slice(s, i, j) == SubSeq(s, SliceIndex(s, i) + 1, SliceIndex(s, j))

\* s[i:]
SliceFrom(s, i) == SubSeq(s, SliceIndex(s, i) + 1, Len(s))

\* str.lstrip(chars): drop every leading character that is in chars
RECURSIVE LStrip(_, _)
LStrip(s, chars) ==
    IF s # <<>> /\ Head(s) \in chars THEN LStrip(Tail(s), chars) ELSE s

\* str.rstrip(chars): drop every trailing character that is in chars
RECURSIVE RStrip(_, _)
RStrip(s, chars) ==
    IF s # <<>> /\ s[Len(s)] \in chars
    THEN RStrip(SubSeq(s, 1, Len(s) - 1), chars)
    ELSE s

\* posixpath.join(a, b)
Join(a, b) ==
    IF b # <<>> /\ Head(b) = "/" THEN b
    ELSE IF a = <<>> \/ a[Len(a)] = "/" THEN a \o b
    ELSE a \o <<"/">> \o b

\* p.rfind('/') + 1: number of characters up to and including the last '/'
RECURSIVE LastSlash(_)
LastSlash(p) ==
    IF p = <<>> THEN 0
    ELSE IF p[Len(p)] = "/" THEN Len(p)
    ELSE LastSlash(SubSeq(p, 1, Len(p) - 1))

\* posixpath.dirname(p)
Dirname(p) ==
    LET head == SubSeq(p, 1, LastSlash(p))
    IN  IF head # <<>> /\ (\E i \in 1..Len(head) : head[i] # "/")
        THEN RStrip(head, {"/"})
        ELSE head

\* posixpath.basename(p)
Basename(p) == SubSeq(p, LastSlash(p) + 1, Len(p))

\* ----- one manifest line (hashcheck, lines 42-47) --------------------------

\* the main loop passing dir as it is
StripDirNot(arg) == arg

\* dir.rstrip('/') of the main loop
StripDir(arg) == RStrip(arg, {"/"})

\* os.path.join(dir, ".hashcheck")
HashfileOf(d) == Join(d, <<".", "h", "a", "s", "h", "c", "h", "e", "c", "k">>)

\* filepath.lstrip('./').rstrip('\n') joined to dir
FinalPath(d, rawpath) == Join(d, RStrip(LStrip(rawpath, {".", "/"}), {"\n"}))

\* str.rfind(c): highest 0-based index holding c, or -1
RECURSIVE RFind(_, _)
RFind(s, c) ==
    IF s = <<>> THEN -1
    ELSE IF s[Len(s)] = c THEN Len(s) - 1
    ELSE RFind(SubSeq(s, 1, Len(s) - 1), c)

\* the fields with the path cut at the last space of the line, not the second
ParseLineLastSpace(d, line) ==
    LET sp1 == Find(line, " ", 0)
        sp2 == RFind(line, " ")
        rawpath == SliceFrom(line, sp2 + 1)
    IN  [ filehash   |-> Slice(line, 0, sp1),
          filelength |-> Slice(line, sp1 + 1, sp2),
          rawpath    |-> rawpath,
          filepath   |-> Join(d, RStrip(LStrip(rawpath, {".", "/"}), {"\n"})) ]

\* the fields hashcheck cuts out of one line of the manifest of directory d;
\* rawpath is filepath as line 46 sets it, filepath as line 47 leaves it
ParseLine(d, line) ==
    LET sp1 == Find(line, " ", 0)
        sp2 == Find(line, " ", sp1 + 1)
        rawpath == SliceFrom(line, sp2 + 1)
    IN  [ filehash   |-> Slice(line, 0, sp1),
          filelength |-> Slice(line, sp1 + 1, sp2),
          rawpath    |-> rawpath,
          filepath   |-> FinalPath(d, rawpath) ]

\* filelength == 0: a comparison with the number, never true of the text
IsZeroLengthAsNumber(filelength) == FALSE

\* filelength == '0'
IsZeroLength(filelength) == filelength = <<"0">>

\* int(len1) == int(len2): the leading zeros do not count
LenEqAsNumbers(len1, len2) == LStrip(len1, {"0"}) = LStrip(len2, {"0"})

\* len1 == len2, on the length tokens as text
LenEq(len1, len2) == len1 = len2

\* the for loop without its break: every entry of equal length
ScanBucketNoBreak(bucket, len1) ==
    SelectSeq(bucket, LAMBDA match : len1 = match[1])

\* the for loop keeping the last entry of equal length instead of the first
ScanBucketLast(bucket, len1) ==
    LET all == ScanBucketNoBreak(bucket, len1)
    IN  IF all = <<>> THEN <<>> ELSE <<all[Len(all)]>>

\* the entries of a bucket the for loop of lines 59-68 prints a line for:
\* the first one of equal length, then break
RECURSIVE ScanBucket(_, _)
ScanBucket(bucket, len1) ==
    IF bucket = <<>> THEN <<>>
    ELSE IF LenEq(len1, Head(bucket)[1]) THEN <<Head(bucket)>>
    ELSE ScanBucket(Tail(bucket), len1)

\* the line with the entry of the bucket first and the new file second
MatchReportBucketFirst(filehash, new, match, k) ==
    [ kind  |-> "match", arg |-> k, hash |-> filehash,
      len1  |-> match[1],            len2  |-> new[1],
      dir1  |-> Dirname(match[2]),   dir2  |-> Dirname(new[2]),
      base1 |-> Basename(match[2]),  base2 |-> Basename(new[2]),
      path1 |-> match[2],            path2 |-> new[2] ]

\* the line printed at line 67; (len1, path1) is the new file, (len2, path2)
\* the entry of the bucket; k is the position of the directory argument
MatchReport(filehash, new, match, k) ==
    [ kind  |-> "match", arg |-> k, hash |-> filehash,
      len1  |-> new[1],            len2  |-> match[1],
      dir1  |-> Dirname(new[2]),   dir2  |-> Dirname(match[2]),
      base1 |-> Basename(new[2]),  base2 |-> Basename(match[2]),
      path1 |-> new[2],            path2 |-> match[2] ]

\* '%s\t%s\t%s\t%s\t%s\t%s\t%s\t%s\t%s' % (...): the text of a match line
MatchText(r) ==
    r.hash \o <<"\t">> \o r.len1 \o <<"\t">> \o r.len2 \o <<"\t">> \o
    r.dir1 \o <<"\t">> \o r.dir2 \o <<"\t">> \o r.base1 \o <<"\t">> \o
    r.base2 \o <<"\t">> \o r.path1 \o <<"\t">> \o r.path2

\* print('%s: no .hashcheck found' % dir)
NotFoundLine(d, k) == [kind |-> "notfound", arg |-> k, dir |-> d]

\* print('%s: processing .hashcheck' % dir)
ProcessingLine(d, k) == [kind |-> "processing", arg |-> k, dir |-> d]

\* the index with the bucket of the hash set to the new entry alone, as line
\* 75 does, whether or not the hash has been seen
IndexAfterReplace(fl, r) ==
    (r.filehash :> << <<r.filelength, r.filepath>> >>) @@ fl

\* the index when an entry already in its bucket is not appended again
IndexAfterNoDuplicate(fl, r) ==
    LET entry == <<r.filelength, r.filepath>>
    IN  IF r.filehash \in DOMAIN fl
        THEN IF \E n \in 1..Len(fl[r.filehash]) : fl[r.filehash][n] = entry
             THEN fl
             ELSE [fl EXCEPT ![r.filehash] = Append(@, entry)]
        ELSE fl @@ (r.filehash :> <<entry>>)

\* the index after lines 57-75 for a record of non-zero length
IndexAfter(fl, r) ==
    LET entry == <<r.filelength, r.filepath>>
    IN  IF r.filehash \in DOMAIN fl
        THEN [fl EXCEPT ![r.filehash] = Append(@, entry)]
        ELSE fl @@ (r.filehash :> <<entry>>)

\* the lines printed when the record is appended to its bucket before the scan
ReportsForAfterAppend(fl, r, k) ==
    LET entry  == <<r.filelength, r.filepath>>
        bucket == IF r.filehash \in DOMAIN fl
                  THEN Append(fl[r.filehash], entry) ELSE <<entry>>
        hits   == ScanBucket(bucket, r.filelength)
    IN  [i \in 1..Len(hits) |-> MatchReport(r.filehash, entry, hits[i], k)]

\* the lines printed by lines 57-68 for a record of non-zero length
ReportsFor(fl, r, k) ==
    IF r.filehash \in DOMAIN fl
    THEN LET hits == ScanBucket(fl[r.filehash], r.filelength)
         IN  [i \in 1..Len(hits) |->
                 MatchReport(r.filehash, <<r.filelength, r.filepath>>, hits[i], k)]
    ELSE <<>>

\* one pass of the body of the for loop (lines 39-75) over st = the index,
\* the output so far and the records parsed so far
ProcessLine(st, d, k, line) ==
    LET r   == ParseLine(d, line)
        rec == [arg |-> k, dir |-> d, line |-> line] @@ r
    IN  IF IsZeroLength(r.filelength)
        THEN [st EXCEPT !.records = Append(@, rec)]
        ELSE [ files   |-> IndexAfter(st.files, r),
               out     |-> st.out \o ReportsFor(st.files, r, k),
               records |-> Append(st.records, rec) ]

RECURSIVE ProcessLines(_, _, _, _)
ProcessLines(st, d, k, lines) ==
    IF lines = <<>> THEN st
    ELSE ProcessLines(ProcessLine(st, d, k, Head(lines)), d, k, Tail(lines))

\* ----- the file system -----------------------------------------------------

\* the file a path names: repeated separators name the same file
RECURSIVE FsKey(_)
FsKey(p) ==
    IF Len(p) < 2 THEN p
    ELSE IF p[1] = "/" /\ p[2] = "/" THEN FsKey(Tail(p))
    ELSE <<p[1]>> \o FsKey(Tail(p))

\* open(hashfile, "r") succeeds
Opens(fsys, hashfile) ==
    IF FsKey(hashfile) \in DOMAIN fsys THEN fsys[FsKey(hashfile)].ok ELSE FALSE

Missing == [ok |-> FALSE, lines |-> <<>>]
Present(lines) == [ok |-> TRUE, lines |-> lines]

\* ----- whole calls, for comparing one run with another ---------------------

\* hashcheck(dir) as the k-th call, on the file system fsys
Hashcheck(st, d, k, fsys) ==
    IF Opens(fsys, HashfileOf(d))
    THEN ProcessLines([st EXCEPT !.out = Append(@, ProcessingLine(d, k))],
                      d, k, fsys[FsKey(HashfileOf(d))].lines)
    ELSE [st EXCEPT !.out = Append(@, NotFoundLine(d, k))]

EmptyRun == [files |-> <<>>, out |-> <<>>, records |-> <<>>]

\* the main loop over args[k..], from state st
RECURSIVE MainFrom(_, _, _, _)
MainFrom(st, args, k, fsys) ==
    IF k > Len(args) THEN st
    ELSE MainFrom(Hashcheck(st, StripDir(args[k]), k, fsys), args, k + 1, fsys)

\* a whole run on args
Main(args, fsys) == MainFrom(EmptyRun, args, 1, fsys)

\* ----- inputs ---------------------------------------------------------------

SeqsUpTo(S, n) == UNION {[1..k -> S] : k \in 0..n}

MkLine(filehash, filelength, path) ==
    filehash \o <<" ">> \o filelength \o <<" ">> \o path \o <<"\n">>

DirA == <<"A">>
DirB == <<"B">>
H1 == <<"h", "1">>
H2 == <<"h", "2">>
L100 == <<"1", "0", "0">>
L0100 == <<"0", "1", "0", "0">>
L0 == <<"0">>
PathX == <<".", "/", "x", ".", "b", "i", "n">>
PathY == <<".", "/", "y", ".", "b", "i", "n">>

\* the directory arguments: one without and one with a trailing separator
Args == {DirA, DirB \o <<"/">>}

\* the manifest lines of the main specification: directory A holds any of
\* them, directory B only y.bin of length 100 and x.bin of length 0100
LinesA == { MkLine(H1, L100, PathX), MkLine(H1, L100, PathY),
            MkLine(H1, L0100, PathX), MkLine(H1, L0, PathY),
            MkLine(H2, L100, PathX) }

LinesB == { MkLine(H1, L100, PathY), MkLine(H1, L0100, PathX) }

\* the manifests that can be found at hashfile
Manifests(hashfile) ==
    SeqsUpTo(IF FsKey(hashfile) = FsKey(HashfileOf(DirB)) THEN LinesB ELSE LinesA,
             MaxLines)

ArgLists == SeqsUpTo(Args, MaxDirs)

\* ----- the program as a state machine ---------------------------------------

VARIABLES
    argv,     \* sys.argv[1:]
    di,       \* position of the main loop in argv (1-based)
    pc,       \* "main": between two calls of hashcheck; "lines": in the for
              \* loop of hashcheck; "done": the main loop has ended
    dir,      \* the parameter dir of the running hashcheck
    input,    \* the lines of the open manifest not read yet
    files,    \* the dict files: hash -> list of (length, path)
    out,      \* the lines printed so far
    records,  \* history: the fields parsed from every line read so far
    fs,       \* the .hashcheck files the run has met so far, by path
    handles   \* the positions in argv whose file object is still open

vars == <<argv, di, pc, dir, input, files, out, records, fs, handles>>

Init ==
    /\ argv \in ArgLists
    /\ di = 1
    /\ pc = "main"
    /\ dir = <<>>
    /\ input = <<>>
    /\ files = <<>>
    /\ out = <<>>
    /\ records = <<>>
    /\ fs = <<>>
    /\ handles = {}

\* the contents open() can find at hashfile: what an earlier open found there,
\* or, at a path not met before, any manifest
Contents(hashfile) ==
    IF FsKey(hashfile) \in DOMAIN fs
    THEN IF fs[FsKey(hashfile)].ok THEN {fs[FsKey(hashfile)].lines} ELSE {}
    ELSE Manifests(hashfile)

\* open() can raise at hashfile
CanFail(hashfile) ==
    IF FsKey(hashfile) \in DOMAIN fs THEN ~fs[FsKey(hashfile)].ok ELSE TRUE

\* fs with what this open found at hashfile
Met(hashfile, found) ==
    IF FsKey(hashfile) \in DOMAIN fs THEN fs ELSE fs @@ (FsKey(hashfile) :> found)

\* open raises and nothing catches it: the run ends there
OpenFailUncaught ==
    /\ pc = "main" /\ di <= Len(argv)
    /\ LET d == StripDir(argv[di])
       IN  /\ CanFail(HashfileOf(d))
           /\ fs' = Met(HashfileOf(d), Missing)
           /\ dir' = d
    /\ pc' = "done"
    /\ UNCHANGED <<argv, di, input, files, out, records, handles>>

\* lines 30-35: open raises; print the diagnostic and return
OpenFail ==
    /\ pc = "main" /\ di <= Len(argv)
    /\ LET d == StripDir(argv[di])
       IN  /\ CanFail(HashfileOf(d))
           /\ fs' = Met(HashfileOf(d), Missing)
           /\ out' = Append(out, NotFoundLine(d, di))
           /\ dir' = d
    /\ di' = di + 1
    /\ UNCHANGED <<argv, pc, input, files, records, handles>>

\* open succeeds and the for loop is entered without the print of line 37
OpenOkSilent ==
    /\ pc = "main" /\ di <= Len(argv)
    /\ LET d == StripDir(argv[di])
       IN  \E lines \in Contents(HashfileOf(d)) :
              /\ fs' = Met(HashfileOf(d), Present(lines))
              /\ input' = lines
              /\ dir' = d
    /\ pc' = "lines"
    /\ handles' = handles \cup {di}
    /\ UNCHANGED <<argv, di, files, out, records>>

\* lines 30-37: open succeeds; print the diagnostic and enter the for loop
OpenOk ==
    /\ pc = "main" /\ di <= Len(argv)
    /\ LET d == StripDir(argv[di])
       IN  \E lines \in Contents(HashfileOf(d)) :
              /\ fs' = Met(HashfileOf(d), Present(lines))
              /\ input' = lines
              /\ out' = Append(out, ProcessingLine(d, di))
              /\ dir' = d
    /\ pc' = "lines"
    /\ handles' = handles \cup {di}
    /\ UNCHANGED <<argv, di, files, records>>

\* one pass of the for loop that scans the bucket in no fixed order: the line
\* printed names any entry of equal length
ForLineAnyEntry ==
    /\ pc = "lines" /\ input # <<>>
    /\ LET st == ProcessLine([files |-> files, out |-> out, records |-> records],
                             dir, di, Head(input))
           r  == ParseLine(dir, Head(input))
       IN  /\ files' = st.files
           /\ records' = st.records
           /\ IF Len(st.out) > Len(out)
              THEN \E n \in 1..Len(files[r.filehash]) :
                      /\ files[r.filehash][n][1] = r.filelength
                      /\ out' = Append(out, MatchReport(r.filehash,
                                                        <<r.filelength, r.filepath>>,
                                                        files[r.filehash][n], di))
              ELSE out' = st.out
    /\ input' = Tail(input)
    /\ UNCHANGED <<argv, di, pc, dir, fs, handles>>

\* lines 39-75: one pass of the for loop
ForLine ==
    /\ pc = "lines" /\ input # <<>>
    /\ LET st == ProcessLine([files |-> files, out |-> out, records |-> records],
                             dir, di, Head(input))
       IN  /\ files' = st.files
           /\ out' = st.out
           /\ records' = st.records
    /\ input' = Tail(input)
    /\ UNCHANGED <<argv, di, pc, dir, fs, handles>>

\* the manifest is exhausted: hashcheck returns to the main loop. No statement
\* closes the file; the return only drops the last reference to it.
ForEnd ==
    /\ pc = "lines" /\ input = <<>>
    /\ pc' = "main"
    /\ di' = di + 1
    /\ UNCHANGED <<argv, dir, input, files, out, records, fs, handles>>

\* the main loop has no argument left
Finish ==
    /\ pc = "main" /\ di > Len(argv)
    /\ pc' = "done"
    /\ UNCHANGED <<argv, di, dir, input, files, out, records, fs, handles>>

Next == OpenFail \/ OpenOk \/ ForLine \/ ForEnd \/ Finish

\* the run without the collector, which changes handles and nothing else
Spec == Init /\ [][Next]_vars

\* the runtime finalizes a file object nothing refers to any more, which closes
\* it. hashcheck never calls close() and uses no with block, so this is the
\* only release of a handle, at a moment the language leaves to the
\* implementation: at the return of hashcheck, later, or not before the exit.
Collect ==
    /\ \E h \in handles :
          /\ ~(pc = "lines" /\ h = di)
          /\ handles' = handles \ {h}
    /\ UNCHANGED <<argv, di, pc, dir, input, files, out, records, fs>>

NextHandles == Next \/ Collect

\* the run with the collector
SpecHandles == Init /\ [][NextHandles]_vars

\* ----- the specification of one line ------------------------------------------

\* the characters of the path fields
PathChars == {".", "/", "x", " "}

\* lines of the form hash SP length SP path, with or without the terminator
\* (the last line of a file may lack it); the tokens may be empty
WellFormedLines ==
    { filehash \o <<" ">> \o filelength \o <<" ">> \o path \o nl :
        filehash \in {<<"h">>, <<>>},
        filelength \in {<<"5">>, <<"0">>, <<>>},
        path \in SeqsUpTo(PathChars, MaxPathLen),
        nl \in {<<"\n">>, <<>>} }

\* lines with fewer than two spaces
ShortLines ==
    { <<"\n">>, <<"h">>, <<"h", "\n">>, <<"h", " ", "5">>, <<"h", " ", "5", "\n">>,
      <<" ", "\n">>, <<"h", "5", " ", "\n">>, <<"h", " ", "0", "\n">>, <<"0", "\n">> }

\* abc123 10 ./sub/file.txt
ExampleLine ==
    <<"a", "b", "c", "1", "2", "3", " ", "1", "0", " ", ".", "/", "s", "u", "b",
      "/", "f", "i", "l", "e", ".", "t", "x", "t", "\n">>

ParseLines == WellFormedLines \cup ShortLines \cup {ExampleLine}

DirData == <<"d", "a", "t", "a">>

\* the values of dir: the main loop has stripped the trailing separators
ParseDirs == {DirData, <<>>, <<"/", "d">>}

\* the manifests: one line, or two lines of fewer than two spaces
ParseInputs ==
    {<<line>> : line \in ParseLines} \cup (ShortLines \X ShortLines)

\* hashcheck(d) has opened a manifest and is about to read it
InitParse ==
    \E d \in ParseDirs, lines \in ParseInputs :
        /\ argv = <<d>>
        /\ di = 1
        /\ pc = "lines"
        /\ dir = d
        /\ input = lines
        /\ files = <<>>
        /\ out = <<ProcessingLine(d, 1)>>
        /\ records = <<>>
        /\ fs = (FsKey(HashfileOf(d)) :> Present(lines))
        /\ handles = {1}

NextParse == ForLine \/ ForEnd \/ Finish

SpecParse == InitParse /\ [][NextParse]_vars

\* ----- properties -------------------------------------------------------------

\* the match lines printed so far
Matches == SelectSeq(out, LAMBDA e : e.kind = "match")

\* the record the step has just parsed
NewRecord == records'[Len(records')]

\* the step is one pass of the for loop of hashcheck
LineStep == pc = "lines" /\ input # <<>> /\ Len(records') = Len(records) + 1

\* records i and j have the same hash and the same length token, not "0"
SameFile(i, j) ==
    /\ records[i].filehash = records[j].filehash
    /\ records[i].filelength = records[j].filelength
    /\ records[i].filelength # <<"0">>

\* the match line e names the paths of records i and j, in any order
Pairs(e, i, j) ==
    /\ e.hash = records[i].filehash
    /\ \/ e.path1 = records[i].filepath /\ e.path2 = records[j].filepath
       \/ e.path1 = records[j].filepath /\ e.path2 = records[i].filepath

\* the records that have an earlier record of the same hash and length
WithEarlier == {j \in 1..Len(records) : \E i \in 1..(j - 1) : SameFile(i, j)}

\* the earliest record of the same hash and length as record j
Earliest(j) == CHOOSE i \in 1..j : SameFile(i, j) /\ \A h \in 1..(i - 1) : ~SameFile(h, j)

\* C1 as stated: when the run has ended, every two records of the same hash and
\* the same non-zero length have been printed together in a match line.
C1_EveryPairReported ==
    pc = "done" =>
        \A i, j \in 1..Len(records) :
            (i < j /\ SameFile(i, j)) =>
                \E n \in 1..Len(Matches) : Pairs(Matches[n], i, j)

\* C1 amended: when the run has ended, every record that has an earlier record
\* of the same hash and the same non-zero length has been printed in a match
\* line together with the earliest such record, and there is no other match
\* line: one per such record.
C1_EarliestPartnerReported ==
    pc = "done" =>
        /\ \A j \in WithEarlier :
               \E n \in 1..Len(Matches) : Pairs(Matches[n], Earliest(j), j)
        /\ Len(Matches) = Cardinality(WithEarlier)

\* three records r1, r2, r3 of the same hash and length, of three different
\* paths, have been processed and the run has ended with two match lines
C1_ThreeAlike ==
    /\ pc = "done"
    /\ \E i, j, k \in 1..Len(records) :
          /\ i < j /\ j < k /\ SameFile(i, j) /\ SameFile(j, k)
          /\ Cardinality({records[i].filepath, records[j].filepath,
                          records[k].filepath}) = 3
    /\ Len(Matches) = 2

\* the entry of the bucket of the new record that the match line e names in
\* its first-position fields, the new record filling the second-position ones
BucketEntryFirst(e) ==
    /\ e.len2 = NewRecord.filelength
    /\ e.path2 = NewRecord.filepath
    /\ e.dir2 = Dirname(NewRecord.filepath)
    /\ e.base2 = Basename(NewRecord.filepath)
    /\ \E n \in 1..Len(files[e.hash]) :
          /\ e.len1 = files[e.hash][n][1]
          /\ e.path1 = files[e.hash][n][2]
          /\ e.dir1 = Dirname(files[e.hash][n][2])
          /\ e.base1 = Basename(files[e.hash][n][2])

\* the new record fills the first-position fields of the match line e, an
\* entry of its bucket the second-position ones
NewRecordFirst(e) ==
    /\ e.len1 = NewRecord.filelength
    /\ e.path1 = NewRecord.filepath
    /\ e.dir1 = Dirname(NewRecord.filepath)
    /\ e.base1 = Basename(NewRecord.filepath)
    /\ \E n \in 1..Len(files[e.hash]) :
          /\ e.len2 = files[e.hash][n][1]
          /\ e.path2 = files[e.hash][n][2]
          /\ e.dir2 = Dirname(files[e.hash][n][2])
          /\ e.base2 = Basename(files[e.hash][n][2])

\* C2 as stated: in every match line the entry that was in the index fills
\* len1, dir1, base1, path1 and the record being processed fills len2, dir2,
\* base2, path2.
C2_EarlierFileFirst ==
    [][ (LineStep /\ Len(out') > Len(out)) =>
            /\ out'[Len(out')].hash = NewRecord.filehash
            /\ BucketEntryFirst(out'[Len(out')]) ]_vars

\* C2 amended: in every match line the record being processed fills len1,
\* dir1, base1, path1 and the entry that was in the index fills len2, dir2,
\* base2, path2.
C2_NewFileFirst ==
    [][ (LineStep /\ Len(out') > Len(out)) =>
            /\ out'[Len(out')].hash = NewRecord.filehash
            /\ NewRecordFirst(out'[Len(out')]) ]_vars

TAB == <<"\t">>
XBin == <<"x", ".", "b", "i", "n">>
YBin == <<"y", ".", "b", "i", "n">>

\* directory A (h1 100 ./x.bin) then directory B (h1 100 ./y.bin) have been
\* processed and the one match line is
\* h1 100 100 B A y.bin x.bin B/y.bin A/x.bin
C2_ScenarioAB ==
    /\ pc = "done"
    /\ Len(records) = 2
    /\ records[1].dir = DirA /\ records[1].line = MkLine(H1, L100, PathX)
    /\ records[2].dir = DirB /\ records[2].line = MkLine(H1, L100, PathY)
    /\ Len(Matches) = 1
    /\ MatchText(Matches[1]) =
          H1 \o TAB \o L100 \o TAB \o L100 \o TAB \o DirB \o TAB \o DirA \o TAB \o
          YBin \o TAB \o XBin \o TAB \o
          DirB \o <<"/">> \o YBin \o TAB \o DirA \o <<"/">> \o XBin

\* the bucket of the hash of record r as the step finds it
BucketBefore(r) == IF r.filehash \in DOMAIN files THEN files[r.filehash] ELSE <<>>

\* the positions of the entries of equal length token in that bucket
EqualIn(bucket, r) == {n \in 1..Len(bucket) : bucket[n][1] = r.filelength}

\* the smallest member of a non-empty set of numbers
Least(S) == CHOOSE n \in S : \A m \in S : n <= m

\* C3: a record of non-zero length prints exactly one match line when its
\* bucket, as it stood before the record, holds an entry of equal length
\* token, and that line pairs the record with the earliest such entry;
\* otherwise it prints nothing. No record prints more than one line.
C3_OneReportWithEarliest ==
    [][ (LineStep /\ NewRecord.filelength # <<"0">>) =>
            LET bucket == BucketBefore(NewRecord)
                eq     == EqualIn(bucket, NewRecord)
            IN  IF eq # {}
                THEN /\ Len(out') = Len(out) + 1
                     /\ SubSeq(out', 1, Len(out)) = out
                     /\ out'[Len(out')].kind = "match"
                     /\ out'[Len(out')].hash = NewRecord.filehash
                     /\ {out'[Len(out')].path1, out'[Len(out')].path2} =
                            {NewRecord.filepath, bucket[Least(eq)][2]}
                ELSE out' = out ]_vars

\* a record of length 100 has met a bucket of lengths 100, 100, 0100 and the
\* one line printed pairs it with the first entry, whose path is not the
\* second entry's
C3_FirstOfTwo ==
    /\ H1 \in DOMAIN files
    /\ Len(files[H1]) = 4
    /\ [n \in 1..4 |-> files[H1][n][1]] = <<L100, L100, L0100, L100>>
    /\ files[H1][1][2] # files[H1][2][2]
    /\ files[H1][4][2] \notin {files[H1][1][2], files[H1][2][2]}
    /\ out # <<>>
    /\ out[Len(out)].kind = "match"
    /\ out[Len(out)].path2 = files[H1][1][2]
    /\ out[Len(out)].path1 = files[H1][4][2]

\* no bucket holds an entry of length "0" and no match line has a length "0"
NoZeroLength ==
    /\ \A h \in DOMAIN files : \A n \in 1..Len(files[h]) : files[h][n][1] # <<"0">>
    /\ \A n \in 1..Len(Matches) :
          Matches[n].len1 # <<"0">> /\ Matches[n].len2 # <<"0">>

\* C4: a record whose length token is "0" prints nothing and leaves the
\* index as it was; no bucket ever holds an entry of length "0" and no match
\* line ever has a length "0".
C4_ZeroLengthIgnored ==
    [][ /\ (LineStep /\ NewRecord.filelength = <<"0">>) =>
               (files' = files /\ out' = out)
        /\ NoZeroLength' ]_vars

\* two records of length "0" and of the same hash have been processed
C4_TwoZeroLength ==
    \E i, j \in 1..Len(records) :
        /\ i < j
        /\ records[i].filelength = <<"0">> /\ records[j].filelength = <<"0">>
        /\ records[i].filehash = records[j].filehash

\* C5: every match line pairs two records of the same hash whose length
\* tokens are the same text; two records of the same hash and of different
\* length tokens are never printed together.
C5_SameHashSameLengthText ==
    \A n \in 1..Len(Matches) :
        LET e == Matches[n]
        IN  /\ e.len1 = e.len2
            /\ \E i \in 1..Len(records) :
                  /\ records[i].filehash = e.hash
                  /\ records[i].filelength = e.len1 /\ records[i].filepath = e.path1
                  /\ \E j \in 1..Len(records) \ {i} :
                        /\ records[j].filehash = e.hash
                        /\ records[j].filelength = e.len2
                        /\ records[j].filepath = e.path2
            /\ ~\E i \in 1..Len(records) :
                  /\ records[i].filelength = e.len1 /\ records[i].filepath = e.path1
                  /\ \E j \in 1..Len(records) :
                        /\ records[j].filelength = e.len2
                        /\ records[j].filepath = e.path2
                        /\ records[i].filehash = records[j].filehash
                        /\ records[i].filelength # records[j].filelength

\* the run has ended with the lengths 100 and 0100 in one bucket and no
\* match line
C5_LeadingZero ==
    /\ pc = "done"
    /\ H1 \in DOMAIN files
    /\ [n \in 1..Len(files[H1]) |-> files[H1][n][1]] = <<L100, L0100>>
    /\ Matches = <<>>

\* path without one leading "./"
WithoutDotSlash(path) ==
    IF Len(path) >= 2 /\ path[1] = "." /\ path[2] = "/"
    THEN SubSeq(path, 3, Len(path))
    ELSE path

\* path without the line terminator that ends it
WithoutTerminator(path) ==
    IF path # <<>> /\ path[Len(path)] = "\n"
    THEN SubSeq(path, 1, Len(path) - 1)
    ELSE path

\* C6: the final path of a record is the directory joined with the raw path
\* field less one leading "./" and less the line terminator, every other
\* character kept.
C6_OnlyOneDotSlashRemoved ==
    \A n \in 1..Len(records) :
        records[n].filepath =
            Join(records[n].dir, WithoutDotSlash(WithoutTerminator(records[n].rawpath)))

\* the number of spaces of a line
RECURSIVE Spaces(_)
Spaces(line) ==
    IF line = <<>> THEN 0
    ELSE (IF Head(line) = " " THEN 1 ELSE 0) + Spaces(Tail(line))

\* C7: of a line of at least two spaces, the hash is the text before the
\* first space, the length the text between the first and the second space,
\* and the raw path everything after the second space, further spaces
\* included.
C7_SplitAtFirstTwoSpaces ==
    \A n \in 1..Len(records) :
        LET r == records[n]
        IN  Spaces(r.line) >= 2 =>
                /\ r.line = r.filehash \o <<" ">> \o r.filelength \o <<" ">> \o r.rawpath
                /\ Spaces(r.filehash) = 0
                /\ Spaces(r.filelength) = 0

\* a line of four spaces has been parsed, two of them in its raw path
C7_SpacesInPath ==
    \E n \in 1..Len(records) :
        /\ Spaces(records[n].line) = 4
        /\ Spaces(records[n].rawpath) = 2
        /\ records[n].filehash # <<>>
        /\ records[n].filelength # <<>>

\* argv with a separator added to every directory argument
WithSlash(args) == [k \in 1..Len(args) |-> args[k] \o <<"/">>]

\* the separator that joins the directory to the path field stands alone
OneSeparator(r) ==
    \A n \in {Len(r.dir), Len(r.dir) + 1} :
        ~(n >= 1 /\ n < Len(r.filepath) /\ r.filepath[n] = "/" /\ r.filepath[n + 1] = "/")

\* C8: the run on the directory arguments each followed by "/" parses the
\* same records with the same paths, builds the same index and prints the
\* same lines as the run that has ended; no path repeats the separator
\* between the directory and the path field.
C8_TrailingSlashSameRun ==
    pc = "done" =>
        LET twin == Main(WithSlash(argv), fs)
        IN  /\ twin.records = records
            /\ twin.files = files
            /\ twin.out = out
            /\ \A n \in 1..Len(records) : OneSeparator(records[n])

\* a run on A and B/ has ended with a match line between the two directories
C8_BothForms ==
    /\ pc = "done"
    /\ argv = <<DirA, DirB \o <<"/">>>>
    /\ \E n \in 1..Len(Matches) :
          Matches[n].dir1 = DirB /\ Matches[n].dir2 = DirA

\* the positions in argv of the directories whose .hashcheck did not open
Failing == {k \in 1..Len(argv) : ~Opens(fs, HashfileOf(StripDir(argv[k])))}

\* argv without the directories whose .hashcheck did not open
RECURSIVE Without(_, _, _)
Without(args, skip, k) ==
    IF k > Len(args) THEN <<>>
    ELSE (IF k \in skip THEN <<>> ELSE <<args[k]>>) \o Without(args, skip, k + 1)

\* the texts of the match lines of an output
MatchTexts(o) ==
    LET m == SelectSeq(o, LAMBDA e : e.kind = "match")
    IN  [n \in 1..Len(m) |-> MatchText(m[n])]

\* C9: a directory whose .hashcheck does not open prints one diagnostic that
\* names it, and no match line, gives no record, and the run goes on: when
\* it has ended, the index and the match lines are those of the run on the
\* other directories alone.
C9_OpenFailureSkipsDirectory ==
    pc = "done" =>
        LET alone == Main(Without(argv, Failing, 1), fs)
        IN  /\ files = alone.files
            /\ MatchTexts(out) = MatchTexts(alone.out)
            /\ \A k \in Failing :
                  /\ SelectSeq(out, LAMBDA e : e.arg = k) =
                         <<NotFoundLine(StripDir(argv[k]), k)>>
                  /\ \A n \in 1..Len(records) : records[n].arg # k

\* the run has ended; the first directory had no .hashcheck and the second
\* one gave a match line
C9_FailThenMatch ==
    /\ pc = "done"
    /\ Len(argv) = 2
    /\ Failing = {1}
    /\ Matches # <<>>

\* the number of directory arguments hashcheck has been called for
Started == IF pc = "lines" THEN di ELSE di - 1

\* the positions in out of the diagnostics of the k-th directory argument
Diagnostics(k) ==
    {n \in 1..Len(out) : out[n].arg = k /\ out[n].kind \in {"processing", "notfound"}}

\* C10: every directory argument prints exactly one diagnostic, "processing"
\* or "not found", before every match line of its records and after every
\* line of the directories before it.
C10_OneDiagnosticFirst ==
    /\ \A n \in 1..Len(out) : out[n].arg \in 1..Started
    /\ \A k \in 1..Started :
          /\ Cardinality(Diagnostics(k)) = 1
          /\ \A d \in Diagnostics(k), n \in 1..Len(out) :
                /\ out[n].arg < k => n < d
                /\ (out[n].arg = k /\ out[n].kind = "match") => d < n

\* the first directory has printed "processing" and a match line, the second
\* "not found", and the run has ended
C10_BothDiagnostics ==
    /\ pc = "done"
    /\ Len(out) = 3
    /\ [n \in 1..3 |-> out[n].kind] = <<"processing", "match", "notfound">>
    /\ [n \in 1..3 |-> out[n].arg] = <<1, 1, 2>>

\* the run the actions have made is the run of the main loop
RunIsMain ==
    pc = "done" =>
        Main(argv, fs) = [files |-> files, out |-> out, records |-> records]


\* C11: the match lines printed and the index built are a function of the
\* ordered directory arguments and of the contents of their manifests: every
\* run on the same arguments and the same files ends with the same match
\* lines and the same index, those of the main loop applied to them.
C11_OutputFunctionOfInput ==
    pc = "done" =>
        LET run == Main(argv, fs)
        IN  /\ MatchTexts(out) = MatchTexts(run.out)
            /\ files = run.files

\* the run has ended and a record has met a bucket holding two entries of
\* its length with different paths: the order of the scan decides the line
C11_TwoCandidates ==
    /\ pc = "done"
    /\ \E h \in DOMAIN files : \E i, j, k \in 1..Len(files[h]) :
          /\ i < j /\ j < k
          /\ files[h][i][1] = files[h][k][1] /\ files[h][j][1] = files[h][k][1]
          /\ files[h][i][2] # files[h][j][2]

\* C12: the partner a match line names is a record of a strictly earlier
\* pass of the loop, found in the bucket as it stood before the new record
\* was appended; the first record of a hash prints nothing, so no line is
\* matched with itself.
C12_PartnerIsEarlier ==
    [][ LineStep =>
            /\ Len(out') > Len(out) =>
                  LET e == out'[Len(out')]
                  IN  /\ NewRecord.filehash \in DOMAIN files
                      /\ \E n \in 1..Len(BucketBefore(NewRecord)) :
                            BucketBefore(NewRecord)[n] = <<e.len2, e.path2>>
                      /\ \E i \in 1..Len(records) :
                            /\ records[i].filehash = e.hash
                            /\ records[i].filelength = e.len2
                            /\ records[i].filepath = e.path2
            /\ NewRecord.filehash \notin DOMAIN files => out' = out ]_vars

\* the first record of a hash has printed nothing and the second record, of
\* the same hash and length and of another path, has printed the one line
C12_SecondOfHash ==
    /\ Len(records) = 2
    /\ SameFile(1, 2)
    /\ records[1].filepath # records[2].filepath
    /\ Len(out) >= 1 /\ out[Len(out)].kind = "match"
    /\ Len(Matches) = 1
    /\ Matches[1].path2 = records[1].filepath

\* the entries of the records of hash h and non-zero length, in the order
\* the records were processed
Entries(h) ==
    LET s == SelectSeq(records,
                       LAMBDA r : r.filehash = h /\ r.filelength # <<"0">>)
    IN  [n \in 1..Len(s) |-> <<s[n].filelength, s[n].filepath>>]

\* every bucket is the records of its hash and of non-zero length, in order
IndexIsHistory ==
    /\ DOMAIN files = {records[n].filehash :
                          n \in {m \in 1..Len(records) : records[m].filelength # <<"0">>}}
    /\ \A h \in DOMAIN files : files[h] = Entries(h)

\* C13: a pass of the loop over a record of non-zero length appends one
\* (length, path) entry at the end of the bucket of its hash, match or not,
\* and leaves every other bucket as it was; no other step changes the index;
\* so every bucket is the records of its hash and of non-zero length in the
\* order they were processed.
C13_IndexOnlyGrows ==
    [][ /\ IF LineStep /\ NewRecord.filelength # <<"0">>
           THEN /\ DOMAIN files' = DOMAIN files \cup {NewRecord.filehash}
                /\ files'[NewRecord.filehash] =
                       Append(BucketBefore(NewRecord),
                              <<NewRecord.filelength, NewRecord.filepath>>)
                /\ \A g \in DOMAIN files \ {NewRecord.filehash} : files'[g] = files[g]
           ELSE files' = files
        /\ IndexIsHistory' ]_vars

\* the run has ended with two buckets; the bucket of h1 has three entries,
\* one of them appended with a match line and one without
C13_TwoBuckets ==
    /\ pc = "done"
    /\ DOMAIN files = {H1, H2}
    /\ Len(files[H1]) = 3
    /\ Len(files[H2]) = 1
    /\ Len(Matches) = 1


\* the position of the first space of a line that has one
SpaceAt(line) == CHOOSE k \in 1..Len(line) : line[k] = " " /\ Spaces(SubSeq(line, 1, k - 1)) = 0

\* line without its last character
ButLast(line) == SubSeq(line, 1, Len(line) - 1)

\* C15: a line of fewer than two spaces is processed as a record. With one
\* space, the hash is the text before it and the length the text after it
\* less the last character of the line; with no space, hash and length are
\* both the line less its last character; the path field is the whole line.
\* Unless the length is "0", the record is in the bucket of its hash.
C15_ShortLineIsRecord ==
    /\ Len(records) + Len(input) = Len(fs[FsKey(HashfileOf(dir))].lines)
    /\ \A n \in 1..Len(records) :
          LET r == records[n]
          IN  Spaces(r.line) < 2 =>
                  /\ r.rawpath = r.line
                  /\ Spaces(r.line) = 1 =>
                        /\ r.filehash = SubSeq(r.line, 1, SpaceAt(r.line) - 1)
                        /\ r.filelength =
                               SubSeq(r.line, SpaceAt(r.line) + 1, Len(r.line) - 1)
                  /\ Spaces(r.line) = 0 =>
                        /\ r.filehash = ButLast(r.line)
                        /\ r.filelength = ButLast(r.line)
                  /\ r.filelength # <<"0">> =>
                        /\ r.filehash \in DOMAIN files
                        /\ \E m \in 1..Len(files[r.filehash]) :
                              files[r.filehash][m] = <<r.filelength, r.filepath>>

\* two lines of one space, h 5, have been read and the second has printed a
\* match line with the first
C15_ShortLinesMatch ==
    /\ Len(records) = 2
    /\ records[1].line = <<"h", " ", "5", "\n">>
    /\ records[2].line = <<"h", " ", "5", "\n">>
    /\ Len(Matches) = 1
    /\ Matches[1].hash = <<"h">>
    /\ Matches[1].len1 = <<"5">>


\* record i has the hash and the length token of the record just parsed
LikeNew(i) ==
    /\ records[i].filehash = NewRecord.filehash
    /\ records[i].filelength = NewRecord.filelength

\* the step processes a record of non-zero length whose hash, length token and
\* final path are those of a record processed before
Repeated ==
    /\ LineStep
    /\ NewRecord.filelength # <<"0">>
    /\ \E i \in 1..Len(records) :
          LikeNew(i) /\ records[i].filepath = NewRecord.filepath

\* the number of entries of the bucket equal to entry
Copies(bucket, entry) == Cardinality({n \in 1..Len(bucket) : bucket[n] = entry})

\* C16 as stated: the second occurrence of a record (same hash, same non-zero
\* length token, same final path) prints a match line whose path1 and path2
\* are identical, and a second identical entry is appended to the bucket.
C16_SecondOccurrencePairsWithItself ==
    [][ Repeated =>
            LET e == out'[Len(out')]
                h == NewRecord.filehash
            IN  /\ Len(out') = Len(out) + 1
                /\ e.kind = "match"
                /\ e.path1 = e.path2
                /\ files'[h] = Append(files[h],
                                      <<NewRecord.filelength, NewRecord.filepath>>)
      ]_vars

\* C16 amended: the second occurrence of a record prints exactly one match
\* line, whose path1 is its own path and whose path2 is the path of the
\* earliest bucket entry of equal length token; the two paths are identical
\* exactly when no record of that hash and length token with another path was
\* processed before the first occurrence. The entry is appended again, so the
\* bucket then holds it at least twice.
C16_SecondOccurrencePairsWithEarliest ==
    [][ Repeated =>
            LET e      == out'[Len(out')]
                h      == NewRecord.filehash
                entry  == <<NewRecord.filelength, NewRecord.filepath>>
                bucket == BucketBefore(NewRecord)
                first  == Least(EqualIn(bucket, NewRecord))
            IN  /\ Len(out') = Len(out) + 1
                /\ e.kind = "match"
                /\ e.hash = h
                /\ e.path1 = NewRecord.filepath
                /\ e.path2 = bucket[first][2]
                /\ e.path1 = e.path2 <=>
                       \A i \in 1..Len(records) :
                           (LikeNew(i) /\ records[i].filepath # NewRecord.filepath)
                               => \E j \in 1..(i - 1) :
                                      /\ LikeNew(j)
                                      /\ records[j].filepath = NewRecord.filepath
                /\ files'[h] = Append(bucket, entry)
                /\ Copies(files'[h], entry) >= 2
      ]_vars

\* directory A has been listed twice; the record of A/x.bin was processed a
\* second time, was reported with itself, and is twice in its bucket
C16_SameDirectoryTwice ==
    /\ Len(argv) = 2
    /\ argv[1] = argv[2]
    /\ Len(records) = 2
    /\ records[1].filepath = records[2].filepath
    /\ records[1].filehash = H1
    /\ records[2].filehash = H1
    /\ records[1].filelength = L100
    /\ records[2].filelength = L100
    /\ Len(Matches) = 1
    /\ Matches[1].path1 = Matches[1].path2
    /\ Matches[1].path1 = records[2].filepath
    /\ Copies(files[H1], <<L100, records[2].filepath>>) = 2


====
